---- MODULE Spec2Model ----
(***************************************************************************)
(* A model of the po_parser Streamlit application: the login gate of      *)
(* app.py and of the pages, the ILM item-block line scanner (helpers.py   *)
(* and helpers/extractor.py) with both versions of parse_block, the ILM   *)
(* page's table construction, the Westell page's process_files, the       *)
(* agents and chat system of helpers/agent.py and the STEP file weights   *)
(* of weight_calc.py.                                                      *)
(*                                                                         *)
(* Text is modelled as sequences of tokens: a line is a sequence of       *)
(* tokens, a token an indivisible piece of text (" " is one blank).       *)
(* strip, replace(" ", ""), startswith and the regular expressions work   *)
(* on these sequences.                                                     *)
(***************************************************************************)
EXTENDS Integers, Sequences, FiniteSets, TLC

VARIABLES
    session_state,  \* st.session_state of one browser session: key -> value
    view,           \* what the last script run rendered in that session
    last_click,     \* the widget event that triggered the last run of app.py
    variant,        \* which ILM extractor runs: "helpers" or "extractor"
    lines,          \* the lines of full_text the scanner loop has read
    scan,           \* the local variables of the scanner loop
    result,         \* the value the extractor returned
    ilm,            \* the run of pages/1_ILM.py over the uploaded PDFs
    wsess,          \* per session: its run of 2_Westell.py process_files
    temp_dirs,      \* the directories tempfile.mkdtemp() has created
    csv_file,       \* the file po_extracted.csv of the server's directory
    console,        \* what print() wrote to the server's standard output
    parsed,         \* one call of parse_block: its version, argument, outcome
    chat,           \* the AutoGenChatSystem of the Bot page and its last calls
    step            \* one run over STEP files and the rows it collected

authVars == <<session_state, view, last_click>>
scanVars == <<variant, lines, scan, result>>
ilmVars == <<ilm>>
westellVars == <<wsess, temp_dirs, csv_file, console>>
parseVars == <<parsed>>
chatVars == <<chat>>
stepVars == <<step>>
vars == <<authVars, scanVars, ilmVars, westellVars, parseVars, chatVars, stepVars>>

(***************************************************************************)
(* app.py: credentials and login                                           *)
(***************************************************************************)

\* The value None of current_user.
NoUser == "None"

\* The three accounts read from st.secrets (names and passwords are
\* deployment data; two accounts may share a password).
USER_CREDENTIALS ==
    [u \in {"luke", "carter", "zach"} |->
        [password |-> IF u = "luke" THEN "pw1" ELSE "pw2", role |-> "user"]]

\* What can be typed into the two text inputs of the login screen.
UsernameInputs == DOMAIN USER_CREDENTIALS \cup {"", "mallory"}
PasswordInputs == {"pw1", "pw2", "", "wrong"}

\* A plausible slip: the password is not compared.
login_nopassword(username, password) ==
    username \in DOMAIN USER_CREDENTIALS

\* login(username, password)
login(username, password) ==
    /\ username \in DOMAIN USER_CREDENTIALS
    /\ USER_CREDENTIALS[username].password = password

\* A session that has run no script yet has no keys.
EmptySession == [k \in {} |-> FALSE]

\* "logged_in" not in st.session_state or not st.session_state["logged_in"]
NotLoggedIn(ss) ==
    \/ "logged_in" \notin DOMAIN ss
    \/ ~ss["logged_in"]

\* app.py lines 4-7: the keys are set only when absent.
InitSessionState(ss) ==
    [k \in {"logged_in", "current_user"} |->
        IF k \in DOMAIN ss THEN ss[k]
        ELSE IF k = "logged_in" THEN FALSE ELSE NoUser]

\* What one run of app.py renders for a session state.
AppView(ss) ==
    IF ~ss["logged_in"]
    THEN [page |-> "app", shown |-> {"welcome"}, widgets |-> {"Login"},
          uploaded |-> FALSE, processed |-> FALSE]
    ELSE [page |-> "app", shown |-> {"main"}, widgets |-> {"Log Out"},
          uploaded |-> FALSE, processed |-> FALSE]

NoClick == [kind |-> "none", username |-> "", password |-> ""]

\* The browser opens (or reruns) the main script without any widget event.
RunApp ==
    /\ session_state' = InitSessionState(session_state)
    /\ view' = AppView(session_state')
    /\ last_click' = NoClick
    /\ UNCHANGED <<scanVars, ilmVars, westellVars, parseVars, chatVars,
                   stepVars>>

\* A click on Login with the two inputs filled in: app.py lines 48-61.
\* st.rerun() runs the script again, which renders the main content.
ClickLogin ==
    /\ view.page = "app" /\ "Login" \in view.widgets
    /\ \E username \in UsernameInputs, password \in PasswordInputs :
        LET ss == InitSessionState(session_state) IN
        /\ session_state' =
              IF login(username, password)
              THEN [ss EXCEPT !["logged_in"] = TRUE, !["current_user"] = username]
              ELSE ss
        /\ view' = IF login(username, password)
                   THEN AppView(session_state')
                   ELSE [AppView(ss) EXCEPT !.shown = @ \cup {"invalid_login"}]
        /\ last_click' = [kind |-> "login", username |-> username,
                          password |-> password]
    /\ UNCHANGED <<scanVars, ilmVars, westellVars, parseVars, chatVars,
                   stepVars>>

\* A click on Log Out: app.py lines 68-71.
ClickLogOut ==
    /\ view.page = "app" /\ "Log Out" \in view.widgets
    /\ session_state' = [InitSessionState(session_state) EXCEPT
                            !["logged_in"] = FALSE, !["current_user"] = NoUser]
    /\ view' = AppView(session_state')
    /\ last_click' = [kind |-> "logout", username |-> "", password |-> ""]
    /\ UNCHANGED <<scanVars, ilmVars, westellVars, parseVars, chatVars,
                   stepVars>>

(***************************************************************************)
(* pages/: the top of each page script                                     *)
(***************************************************************************)

Pages == {"1_ILM", "2_Westell", "3_Weight_Calc", "4_Bot"}

\* The pages whose script begins with the logged_in check and st.stop().
GatedPages == {"1_ILM", "2_Westell", "4_Bot"}

\* One run of a page script. files: the uploader holds files; process: the
\* page's processing is triggered in this run (for 3_Weight_Calc the
\* "Process All Files" button, for the others the upload itself).
PageView(p, ss, files, process) ==
    IF p \in GatedPages /\ NotLoggedIn(ss)
    THEN [page |-> p, shown |-> {"login_error"}, widgets |-> {},
          uploaded |-> FALSE, processed |-> FALSE]
    ELSE [page |-> p, shown |-> {"content"},
          widgets |-> {"uploader"} \cup
                      (IF p = "3_Weight_Calc" /\ files THEN {"Process"} ELSE {}),
          uploaded |-> files,
          processed |-> files /\ process]

\* The browser opens a page directly: the page script runs, nothing uploaded.
OpenPage ==
    \E p \in Pages :
        /\ view' = PageView(p, session_state, FALSE, FALSE)
        /\ UNCHANGED <<session_state, last_click, scanVars, ilmVars,
                       westellVars, parseVars, chatVars, stepVars>>

\* Files are dropped on the page's uploader, which reruns the page script.
UploadFiles ==
    /\ view.page \in Pages /\ "uploader" \in view.widgets
    /\ view' = PageView(view.page, session_state, TRUE, view.page # "3_Weight_Calc")
    /\ UNCHANGED <<session_state, last_click, scanVars, ilmVars, westellVars,
                   parseVars, chatVars, stepVars>>

\* 3_Weight_Calc.py line 70: the button that starts the processing.
ClickProcess ==
    /\ view.page \in Pages /\ "Process" \in view.widgets
    /\ view' = PageView(view.page, session_state, TRUE, TRUE)
    /\ UNCHANGED <<session_state, last_click, scanVars, ilmVars, westellVars,
                   parseVars, chatVars, stepVars>>

InitAuth ==
    /\ session_state = EmptySession
    /\ view = [page |-> "none", shown |-> {}, widgets |-> {},
               uploaded |-> FALSE, processed |-> FALSE]
    /\ last_click = NoClick

NextAuth ==
    \/ RunApp
    \/ ClickLogin
    \/ ClickLogOut
    \/ OpenPage
    \/ UploadFiles
    \/ ClickProcess

(***************************************************************************)
(* Text: lines as token sequences                                          *)
(***************************************************************************)

\* str.strip(): blanks are removed at both ends.
RECURSIVE LStrip(_)
LStrip(s) ==
    IF s # <<>> /\ Head(s) = " " THEN LStrip(Tail(s)) ELSE s

RECURSIVE RStrip(_)
RStrip(s) ==
    IF s # <<>> /\ s[Len(s)] = " " THEN RStrip(SubSeq(s, 1, Len(s) - 1)) ELSE s

Strip(s) == RStrip(LStrip(s))

\* str.replace(" ", "")
RemoveSpaces(s) == SelectSeq(s, LAMBDA t : t # " ")

\* str.startswith(prefix)
StartsWith(s, prefix) ==
    /\ Len(s) >= Len(prefix)
    /\ SubSeq(s, 1, Len(prefix)) = prefix

\* The tokens that are a d{1,2}/d{1,2}/dddd date.
DateTokens == {"12/03/2024"}

\* re.match(r"\d{1,2}/\d{1,2}/\d{4}", s): s begins with a date.
MatchesDate(s) == s # <<>> /\ s[1] \in DateTokens

\* re.search(r'page', l, re.IGNORECASE)
ContainsPage(s) == \E i \in 1..Len(s) : s[i] \in {"Page", "page", "PAGE"}

\* The literals of the scanner.
StartMarker == <<"Tax", "%", "Tax", "%">>
TaxPercent == <<"Tax", " ", "%">>
stop_marker == <<"▌Tax Details">>
DeliveryDateLabel == <<"Delivery Date:">>

\* The lines a text is made of.
LineVocab ==
    { <<"Tax", " ", "%", " ", "Tax", " ", "%">>,
      <<"Tax", " ", "%", " ">>,
      <<"▌Tax Details">>,
      <<" ", "Delivery Date:">>,
      <<"12/03/2024">>,
      <<"Page", " ", "1">>,
      <<"Widget">> }

\* The longest text read.
MaxLines == 5

(***************************************************************************)
(* helpers.py extract_item_blocks / helpers/extractor.py                   *)
(* extract_item_blocks_ILM: the loop over the lines                        *)
(***************************************************************************)

Variants == {"helpers", "extractor"}

\* The locals before the loop. stopped: the loop was left by break.
\* An entry of current_block is the appended text with, as provenance,
\* the number of the line it was read from.
ScanStart ==
    [inside_table |-> FALSE, blocks |-> <<>>, current_block |-> <<>>,
     waiting_for_date |-> FALSE, prev_line |-> <<>>,
     start_marker_found |-> FALSE, stopped |-> FALSE]

(***************************************************************************)
(* parse_block of helpers.py and of helpers/extractor.py                   *)
(***************************************************************************)

\* Numbers are written character by character: "2.5" is <<"2", ".", "5">>.
DigitChars == <<"0", "1", "2", "3", "4", "5", "6", "7", "8", "9">>

Digit == { DigitChars[i] : i \in 1..Len(DigitChars) }

\* re.match(r"^\d+$", s)
IsDigits(s) == s # <<>> /\ \A i \in 1..Len(s) : s[i] \in Digit

\* re.match(r"^\d+\.\d+$", s)
IsDecimal(s) ==
    \E k \in 2..(Len(s) - 1) :
        /\ s[k] = "."
        /\ IsDigits(SubSeq(s, 1, k - 1))
        /\ IsDigits(SubSeq(s, k + 1, Len(s)))

\* The literals of parse_block.
ZeroLine == <<"0", ".", "0", "0", "0", "0">>
ItemCodeLabel == <<"Item Code:">>
Each == <<"Each">>
RevTokens == {"Rev", "REV"}

\* The tokens that do not begin with a word character (\w).
NonWord == {" ", "%", ".", "▌Tax Details"}

DigitOf(c) == (CHOOSE i \in 1..Len(DigitChars) : DigitChars[i] = c) - 1

\* int() of a string of digits.
RECURSIVE IntValue(_)
IntValue(s) ==
    IF s = <<>> THEN 0
    ELSE 10 * IntValue(SubSeq(s, 1, Len(s) - 1)) + DigitOf(s[Len(s)])

\* round(x, 4): numbers are kept in units of 10^-Places.
Places == 4
Scale == 10 ^ Places

\* float(s) of a digits.digits string with at most Places decimals, in
\* units of 10^-Places.
FloatValue(s) ==
    LET k == CHOOSE j \in 1..Len(s) : s[j] = "."
        decimals == SubSeq(s, k + 1, Len(s))
        padded == [i \in 1..Places |->
                      IF i <= Len(decimals) THEN decimals[i] ELSE "0"]
    IN IntValue(SubSeq(s, 1, k - 1)) * Scale + IntValue(padded)

\* float(s) does not raise ValueError (of the strings of the model).
FloatParses(s) == IsDecimal(s) \/ IsDigits(s)

RECURSIVE IntDigits(_)
IntDigits(n) ==
    IF n < 10 THEN <<DigitChars[n + 1]>>
    ELSE IntDigits(n \div 10) \o <<DigitChars[(n % 10) + 1]>>

RECURSIVE StripZeros(_)
StripZeros(d) ==
    IF Len(d) > 1 /\ d[Len(d)] = "0" THEN StripZeros(SubSeq(d, 1, Len(d) - 1))
    ELSE d

\* str(x) of a float that is n units of 10^-Places: "4.0", "33.3333".
FormatFloat(n) ==
    LET decimals == [i \in 1..Places |->
                        DigitChars[((n \div (10 ^ (Places - i))) % 10) + 1]]
    IN IntDigits(n \div Scale) \o <<".">> \o StripZeros(decimals)

\* round(a / b, 4) in units of 10^-Places, for a, b in the same unit. The
\* quotient is rounded to the nearest unit; a quotient exactly between two
\* units goes to the even one.
RoundDiv(a, b) ==
    LET n == a * Scale
        q == n \div b
        r == n % b
    IN IF 2 * r > b \/ (2 * r = b /\ q % 2 = 1) THEN q + 1 ELSE q

\* The outcome of a Python expression: its value, or the exception raised.
Value(x) == [exc |-> "", value |-> x]

\* "try: ... except: data[...] = fallback"
TryExcept(outcome, fallback) ==
    IF outcome.exc # "" THEN Value(fallback) ELSE outcome

\* str.lower() and the tokens it changes.
LowerToken(t) ==
    CASE t \in {"Each", "EACH"} -> "each"
      [] t \in RevTokens -> "rev"
      [] t \in {"Page", "PAGE"} -> "page"
      [] t = "Widget" -> "widget"
      [] t = "Tax" -> "tax"
      [] t = "Delivery Date:" -> "delivery date:"
      [] t = "Item Code:" -> "item code:"
      [] t = "Steel" -> "steel"
      [] t = "ALUMINUM" -> "aluminum"
      [] OTHER -> t

Lower(s) == [i \in 1..Len(s) |-> LowerToken(s[i])]

\* " ".join(strings)
RECURSIVE JoinSpace(_)
JoinSpace(strings) ==
    IF strings = <<>> THEN <<>>
    ELSE IF Len(strings) = 1 THEN strings[1]
    ELSE strings[1] \o <<" ">> \o JoinSpace(Tail(strings))

\* str.split(): the words between the blanks.
RECURSIVE Split(_)
Split(s) ==
    LET t == LStrip(s) IN
    IF t = <<>> THEN <<>>
    ELSE LET blanks == { i \in 1..Len(t) : t[i] = " " }
             k == IF blanks = {} THEN Len(t) + 1
                  ELSE CHOOSE i \in blanks : \A j \in blanks : i <= j
         IN <<SubSeq(t, 1, k - 1)>> \o Split(SubSeq(t, k, Len(t)))

\* helpers.py reads line.strip() where helpers/extractor.py reads the line
\* as it is.
Read(v, line) == IF v = "helpers" THEN Strip(line) ELSE line

\* "for i, line in enumerate(block_lines): if line.startswith(label) and
\* i + 1 < len(block_lines)": the index of that line, 0 if there is none.
LabelIndex(v, block_lines, label) ==
    LET idx == { i \in 1..Len(block_lines) :
                   StartsWith(Read(v, block_lines[i]), label) /\ i + 1 <= Len(block_lines) }
    IN IF idx = {} THEN 0 ELSE CHOOSE i \in idx : \A j \in idx : i <= j

\* The Delivery Date is the line after the first line that starts with
\* 'Delivery Date:'.
DeliveryDateOf(v, block_lines) ==
    LET i == LabelIndex(v, block_lines, DeliveryDateLabel) IN
    IF i = 0 THEN <<>> ELSE Strip(block_lines[i + 1])

ItemCodeOf(v, block_lines) ==
    LET i == LabelIndex(v, block_lines, ItemCodeLabel) IN
    IF i = 0 THEN <<>> ELSE Strip(block_lines[i + 1])

\* float_lines: the lines of the form digits.digits other than "0.0000".
float_lines(v, block_lines) ==
    SelectSeq([i \in 1..Len(block_lines) |-> Read(v, block_lines[i])],
              LAMBDA s : IsDecimal(s) /\ s # ZeroLine)

\* A plausible slip: the last float line is taken.
TotalOf_last(floats) == floats[Len(floats)]

\* max(float_lines, key=lambda x: float(x)): the first of the largest.
TotalOf(floats) ==
    LET i == CHOOSE j \in 1..Len(floats) :
                 /\ \A k \in 1..Len(floats) :
                       FloatValue(floats[j]) >= FloatValue(floats[k])
                 /\ \A k \in 1..(j - 1) :
                       FloatValue(floats[k]) < FloatValue(floats[j])
    IN floats[i]

\* float(Total) / float(Price), rounded and printed; a zero Price raises.
Division(Total, Price) ==
    IF FloatValue(Price) = 0
    THEN [exc |-> "ZeroDivisionError", value |-> <<>>]
    ELSE Value(FormatFloat(RoundDiv(FloatValue(Total), FloatValue(Price))))

\* "try: if data["Price"] and data["Total"]: ... except: data["Quantity"] = """
QuantityOf(Price, Total) ==
    IF Price # <<>> /\ Total # <<>>
    THEN TryExcept(Division(Total, Price), <<>>)
    ELSE Value(<<>>)

UoMOf(v, block_lines) ==
    IF \E i \in 1..Len(block_lines) : Read(v, block_lines[i]) = Each THEN Each ELSE <<>>

\* helpers.py: the lines that are no number, label, 'Each' or known field.
Candidates(block_lines, known) ==
    SelectSeq([i \in 1..Len(block_lines) |-> Strip(block_lines[i])],
              LAMBDA s : /\ ~IsDecimal(s)
                         /\ s # Each
                         /\ ~StartsWith(s, DeliveryDateLabel)
                         /\ ~StartsWith(s, ItemCodeLabel)
                         /\ s \notin known)

\* helpers.py: every candidate that was seen before, in order.
RECURSIVE Duplicates(_)
Duplicates(candidates) ==
    IF candidates = <<>> THEN <<>>
    ELSE LET front == SubSeq(candidates, 1, Len(candidates) - 1)
             last == candidates[Len(candidates)]
         IN Duplicates(front) \o
            (IF \E j \in 1..Len(front) : front[j] = last THEN <<last>> ELSE <<>>)

\* helpers.py: the first line that is no known field, label, duplicate or
\* number.
ItemDetails_helpers(block_lines, fields, duplicates) ==
    LET Skipped(s) ==
            \/ s \in fields \cup {Each}
            \/ StartsWith(s, DeliveryDateLabel) \/ StartsWith(s, ItemCodeLabel)
            \/ \E j \in 1..Len(duplicates) : duplicates[j] = s
            \/ FloatParses(s)
        idx == { i \in 1..Len(block_lines) : ~Skipped(Strip(block_lines[i])) }
    IN IF idx = {} THEN <<>>
       ELSE Strip(block_lines[CHOOSE i \in idx : \A j \in idx : i <= j])

\* re.match(r"^(Rev|REV)\s+\w+", ln)
RevLine(ln) ==
    /\ Len(ln) >= 3
    /\ ln[1] \in RevTokens
    /\ ln[2] = " "
    /\ LET rest == LStrip(Tail(ln)) IN rest # <<>> /\ rest[1] \notin NonWord

\* helpers/extractor.py: the index of the first Rev line, 0 if none.
RevIndex(block_lines) ==
    LET idx == { i \in 1..Len(block_lines) : RevLine(block_lines[i]) }
    IN IF idx = {} THEN 0 ELSE CHOOSE i \in idx : \A j \in idx : i <= j

\* re.search(r'\bEach\b', middle, flags=re.IGNORECASE)
HasEach(middle) ==
    \E i \in 1..Len(middle) :
        /\ LowerToken(middle[i]) = "each"
        /\ i = 1 \/ middle[i - 1] \in NonWord
        /\ i = Len(middle) \/ middle[i + 1] \in NonWord

\* re.search(r'\d+\.\d+', middle)
HasDecimal(middle) ==
    \E i \in 1..(Len(middle) - 2) :
        middle[i] \in Digit /\ middle[i + 1] = "." /\ middle[i + 2] \in Digit

\* helpers/extractor.py clean_description: a start repeated at the end,
\* around 'Each' or a number, is kept once; the longest such start wins.
clean_description(desc) ==
    LET stripped == Strip(desc)
        words == Split(stripped)
        n == Len(words)
        start_sub(length) == JoinSpace(SubSeq(words, 1, length))
        end_sub(length) == JoinSpace(SubSeq(words, n - length + 1, n))
        middle(length) == JoinSpace(SubSeq(words, length + 1, n - length))
        repeated == { length \in 1..(n \div 2) :
                        /\ Lower(start_sub(length)) = Lower(end_sub(length))
                        /\ HasEach(middle(length)) \/ HasDecimal(middle(length)) }
    IN IF stripped = <<>> THEN <<>>
       ELSE IF repeated = {} THEN stripped
       ELSE Strip(start_sub(CHOOSE l \in repeated : \A m \in repeated : l >= m))

\* helpers/extractor.py: the lines between the Rev line, or else the
\* nearest integer line, and the item code, joined and cleaned.
Description_extractor(block_lines) ==
    LET p == LabelIndex("extractor", block_lines, ItemCodeLabel)
        rev_index == RevIndex(block_lines)
        ints == { j \in 1..p : IsDigits(Strip(block_lines[j])) }
        from == IF rev_index # 0 THEN rev_index + 1
                ELSE IF ints # {}
                THEN (CHOOSE j \in ints : \A k \in ints : j >= k) + 1
                ELSE 1
        desc_lines == SelectSeq(SubSeq(block_lines, from, p),
                                LAMBDA l : /\ ~StartsWith(Strip(l), ItemCodeLabel)
                                           /\ Strip(l) # <<>>)
    IN IF p = 0 THEN <<>>
       ELSE clean_description(Strip(JoinSpace(desc_lines)))

\* The keys of the dict parse_block returns.
ItemKeys ==
    {"Item_Code", "Delivery Date", "Description", "Item Details",
     "UoM(optional)", "Quantity", "Price", "Total"}

\* The dict before a field is found.
EmptyData == [k \in ItemKeys |-> <<>>]

\* parse_block of version v on a block: data is the dict returned, raised
\* the exception that leaves the call ("" if none), source the block.
parse_block(v, block_lines) ==
    LET texts == [i \in 1..Len(block_lines) |-> block_lines[i].text]
        DeliveryDate == DeliveryDateOf(v, texts)
        Item_Code == ItemCodeOf(v, texts)
        floats == float_lines(v, texts)
        Price == IF floats # <<>> THEN floats[1] ELSE <<>>
        Total == IF floats # <<>> THEN TotalOf(floats) ELSE <<>>
        Quantity == QuantityOf(Price, Total)
        duplicates == Duplicates(Candidates(texts,
                          {Price, Total, DeliveryDate, Item_Code}))
        Description == IF v = "helpers" THEN Strip(JoinSpace(duplicates))
                       ELSE Description_extractor(texts)
        ItemDetails == IF v = "helpers"
                       THEN ItemDetails_helpers(texts,
                                {Price, Total, Quantity.value, DeliveryDate,
                                 Item_Code}, duplicates)
                       ELSE IF RevIndex(texts) # 0 THEN texts[RevIndex(texts)]
                       ELSE <<>>
    IN [source |-> block_lines,
        raised |-> Quantity.exc,
        data |-> [k \in ItemKeys |->
                    CASE k = "Item_Code" -> Item_Code
                      [] k = "Delivery Date" -> DeliveryDate
                      [] k = "Description" -> Description
                      [] k = "Item Details" -> ItemDetails
                      [] k = "UoM(optional)" -> UoMOf(v, texts)
                      [] k = "Quantity" -> Quantity.value
                      [] k = "Price" -> Price
                      [] k = "Total" -> Total]]

\* The lines parse_block is called with: numbers, one of them not
\* stripped, the excluded "0.0000", a zero that is not "0.0000", and text.
BlockVocab ==
    { <<"2", ".", "5">>,
      <<"1", "0", ".", "0">>,
      <<"0", ".", "3">>,
      <<"0", ".", "0">>,
      ZeroLine,
      <<" ", "7", ".", "5">>,
      <<"Widget">>,
      Each }

\* The longest block parse_block is called with.
MaxBlockLines == 4

\* A list of lines as a block: every line with its number.
Numbered(texts) == [i \in 1..Len(texts) |-> [text |-> texts[i], at |-> i]]

\* parse_block of one of the two versions is called with an empty list.
CallParseBlock ==
    /\ parsed.version = "none"
    /\ \E v \in Variants :
          parsed' = [version |-> v, block_lines |-> <<>>,
                     item |-> parse_block(v, <<>>)]
    /\ UNCHANGED <<authVars, scanVars, ilmVars, westellVars, chatVars, stepVars>>

\* The same version is called with a list that has one more line.
CallWithLine ==
    /\ parsed.version \in Variants
    /\ Len(parsed.block_lines) < MaxBlockLines
    /\ \E line \in BlockVocab :
          LET block_lines == Append(parsed.block_lines, line) IN
          parsed' = [parsed EXCEPT
                        !.block_lines = block_lines,
                        !.item = parse_block(parsed.version, Numbered(block_lines))]
    /\ UNCHANGED <<authVars, scanVars, ilmVars, westellVars, chatVars, stepVars>>

InitParse ==
    parsed = [version |-> "none", block_lines |-> <<>>,
              item |-> [source |-> <<>>, raised |-> "", data |-> EmptyData]]

NextParse == CallParseBlock \/ CallWithLine

\* "if not inside_table": the search for the start marker.
FindStart(st, line_strip) ==
    LET combined == RemoveSpaces(st.prev_line \o line_strip) IN
    IF combined = StartMarker
    THEN [st EXCEPT !.inside_table = TRUE, !.prev_line = <<>>,
                    !.start_marker_found = TRUE]
    ELSE IF line_strip = TaxPercent
    THEN [st EXCEPT !.prev_line = line_strip]
    ELSE [st EXCEPT !.prev_line = line_strip]

\* "if line_strip.startswith(stop_marker)": helpers.py breaks,
\* helpers/extractor.py leaves the table and continues.
OnStopMarker(v, st) ==
    IF v = "helpers"
    THEN [st EXCEPT !.stopped = TRUE]
    ELSE [st EXCEPT !.inside_table = FALSE]

\* A plausible slip: the pending flag is not looked at.
BlockCloses_anydate(st, line_strip) ==
    MatchesDate(line_strip)

\* "if waiting_for_date: if re.match(date, line_strip)"
BlockCloses(st, line_strip) ==
    st.waiting_for_date /\ MatchesDate(line_strip)

\* A plausible slip: the completed block is not searched for 'page'.
DropsBlock_never(v, block) == FALSE

\* "if any(re.search(r'page', l, re.IGNORECASE) for l in current_block)",
\* in helpers/extractor.py only.
DropsBlock(v, block) ==
    v = "extractor" /\ \E i \in 1..Len(block) : ContainsPage(block[i].text)

\* The rest of the loop body: the line is collected; a date line that
\* follows a pending 'Delivery Date:' closes the block.
Collect(v, st, line, at) ==
    LET line_strip == Strip(line)
        kept == IF v = "helpers" THEN line ELSE line_strip
        appended == Append(st.current_block, [text |-> kept, at |-> at])
    IN
    IF StartsWith(line_strip, DeliveryDateLabel)
    THEN [st EXCEPT !.current_block = appended, !.waiting_for_date = TRUE]
    ELSE IF BlockCloses(st, line_strip)
    THEN LET block == Append(appended, [text |-> line_strip, at |-> at]) IN
         IF DropsBlock(v, block)
         THEN [st EXCEPT !.current_block = <<>>, !.waiting_for_date = FALSE,
                         !.inside_table = FALSE, !.prev_line = <<>>]
         ELSE [st EXCEPT !.blocks = Append(@, parse_block(v, block)),
                         !.current_block = <<>>, !.waiting_for_date = FALSE]
    ELSE [st EXCEPT !.current_block = appended]

\* One iteration of "for line in lines", for line number at.
Step(v, st, line, at) ==
    LET line_strip == Strip(line) IN
    IF ~st.inside_table
    THEN FindStart(st, line_strip)
    ELSE IF StartsWith(line_strip, stop_marker)
    THEN OnStopMarker(v, st)
    ELSE Collect(v, st, line, at)

NoResult == [kind |-> "pending", error |-> "", items |-> <<>>]

\* A plausible slip: the flag tested is inside_table.
Return_inside(st) ==
    IF ~st.inside_table
    THEN [kind |-> "error", error |-> "format mismatch", items |-> <<>>]
    ELSE [kind |-> "list", error |-> "", items |-> st.blocks]

\* "if not start_marker_found: return {"error": ...}" / "return blocks"
Return(st) ==
    IF ~st.start_marker_found
    THEN [kind |-> "error", error |-> "format mismatch", items |-> <<>>]
    ELSE [kind |-> "list", error |-> "", items |-> st.blocks]

\* The whole loop over a text, of which n lines are left to read.
RECURSIVE ScanFrom(_, _, _, _)
ScanFrom(v, st, text, at) ==
    IF at > Len(text) \/ st.stopped THEN st
    ELSE ScanFrom(v, Step(v, st, text[at], at), text, at + 1)

ScanText(v, text) == ScanFrom(v, ScanStart, text, 1)

\* The extractor is called on a PDF whose text can be read.
CallExtractor ==
    /\ variant = "none"
    /\ variant' \in Variants
    /\ UNCHANGED <<lines, scan, result, authVars, ilmVars, westellVars,
                   parseVars, chatVars, stepVars>>

\* The loop reads the next line of the text.
ScanLine ==
    /\ variant \in Variants
    /\ result = NoResult
    /\ ~scan.stopped
    /\ Len(lines) < MaxLines
    /\ \E line \in LineVocab :
        /\ lines' = Append(lines, line)
        /\ scan' = Step(variant, scan, line, Len(lines) + 1)
    /\ UNCHANGED <<variant, result, authVars, ilmVars, westellVars,
                   parseVars, chatVars, stepVars>>

\* The text has no more lines, or the loop was left: the function returns.
ReturnBlocks ==
    /\ variant \in Variants
    /\ result = NoResult
    /\ result' = Return(scan)
    /\ UNCHANGED <<variant, lines, scan, authVars, ilmVars, westellVars,
                   parseVars, chatVars, stepVars>>

InitScan ==
    /\ variant = "none"
    /\ lines = <<>>
    /\ scan = ScanStart
    /\ result = NoResult

NextScan ==
    \/ CallExtractor
    \/ ScanLine
    \/ ReturnBlocks

(***************************************************************************)
(* pages/1_ILM.py: the table built from the uploaded PDFs                  *)
(***************************************************************************)

\* The most PDFs in one upload.
MaxPdfs == 3

MarkerLine == <<"Tax", " ", "%", " ", "Tax", " ", "%">>
DeliveryLine == <<" ", "Delivery Date:">>
DateLine == <<"12/03/2024">>

\* The PDFs that can be uploaded: one that cannot be opened, and readable
\* ones with the text of their pages and the document number found in it.
IlmPdfs ==
    { [readable |-> FALSE, doc |-> "", text |-> <<>>],
      [readable |-> TRUE, doc |-> "PO7", text |-> << <<"Widget">> >>],
      [readable |-> TRUE, doc |-> "PO8", text |-> <<MarkerLine, <<"Widget">> >>],
      [readable |-> TRUE, doc |-> "PO9",
       text |-> <<MarkerLine, DeliveryLine, DateLine>>],
      [readable |-> TRUE, doc |-> "PO10",
       text |-> <<MarkerLine, DeliveryLine, DateLine, <<"Widget">>,
                  DeliveryLine, DateLine>>] }

\* helpers.py extract_po_info: the header fields, or the caught exception.
extract_po_info(pdf) ==
    IF pdf.readable
    THEN [error |-> "", DocumentNumber |-> pdf.doc]
    ELSE [error |-> "exception", DocumentNumber |-> ""]

\* helpers.py extract_item_blocks: the caught exception of a PDF that
\* cannot be read, or what the loop over its lines returns.
extract_item_blocks(pdf) ==
    IF pdf.readable
    THEN Return(ScanText("helpers", pdf.text))
    ELSE [kind |-> "error", error |-> "exception", items |-> <<>>]

NoItem == [source |-> <<>>, raised |-> "", data |-> EmptyData]

\* A plausible slip: the else branch is missing.
RowsOf_noelse(n, pdf) ==
    LET po_info == extract_po_info(pdf)
        item_blocks == extract_item_blocks(pdf)
    IN IF item_blocks.kind = "list"
       THEN [i \in 1..Len(item_blocks.items) |->
                [pdf |-> n, po_info |-> po_info, error |-> po_info.error,
                 item |-> item_blocks.items[i]]]
       ELSE <<>>

\* Lines 46-55: the rows the n-th PDF adds to all_data. {**po_info, **item}
\* keeps the header fields (and the header's error) next to the item's;
\* {**po_info, "error": ...} replaces the error.
RowsOf(n, pdf) ==
    LET po_info == extract_po_info(pdf)
        item_blocks == extract_item_blocks(pdf)
    IN IF item_blocks.kind = "list"
       THEN [i \in 1..Len(item_blocks.items) |->
                [pdf |-> n, po_info |-> po_info, error |-> po_info.error,
                 item |-> item_blocks.items[i]]]
       ELSE << [pdf |-> n, po_info |-> po_info, error |-> item_blocks.error,
                item |-> NoItem] >>

IlmIdle ==
    [pc |-> "idle", pdf_files |-> <<>>, next |-> 1, all_data |-> <<>>, df |-> <<>>]

\* PDFs are dropped on the uploader: the script reruns down to line 40.
IlmUpload ==
    /\ ilm.pc \in {"idle", "shown"}
    /\ \E n \in 1..MaxPdfs : \E files \in [1..n -> IlmPdfs] :
        ilm' = [IlmIdle EXCEPT !.pc = "loop", !.pdf_files = files]
    /\ UNCHANGED <<authVars, scanVars, westellVars, parseVars, chatVars,
                   stepVars>>

\* One iteration of "for pdf_file in pdf_files".
IlmProcessPdf ==
    /\ ilm.pc = "loop"
    /\ ilm.next <= Len(ilm.pdf_files)
    /\ ilm' = [ilm EXCEPT
                 !.all_data = @ \o RowsOf(ilm.next, ilm.pdf_files[ilm.next]),
                 !.next = @ + 1]
    /\ UNCHANGED <<authVars, scanVars, westellVars, parseVars, chatVars,
                   stepVars>>

\* Lines 58-72: the DataFrame of all_data is displayed and offered as CSV.
IlmShowTable ==
    /\ ilm.pc = "loop"
    /\ ilm.next > Len(ilm.pdf_files)
    /\ ilm' = [ilm EXCEPT !.pc = "shown", !.df = ilm.all_data]
    /\ UNCHANGED <<authVars, scanVars, westellVars, parseVars, chatVars,
                   stepVars>>

InitIlm == ilm = IlmIdle

NextIlm ==
    \/ IlmUpload
    \/ IlmProcessPdf
    \/ IlmShowTable

(***************************************************************************)
(* pages/2_Westell.py process_files and helpers/extractor.py               *)
(* extract_po_info_Westl, run by concurrent sessions of one server         *)
(***************************************************************************)

Sessions == {1, 2}

\* The most PDFs in one Westell upload.
MaxUpload == 2

\* The PDFs that can be uploaded: the first integer of the text, the item
\* code of each line-item block, and whether reading the PDF raises.
WestellPdfs ==
    { [name |-> "a.pdf", first_int |-> <<"9">>, items |-> <<"X1">>, raises |-> FALSE],
      [name |-> "b.pdf", first_int |-> <<"1", "0">>, items |-> <<"X1">>, raises |-> FALSE],
      [name |-> "c.pdf", first_int |-> <<"9">>, items |-> <<"X1", "X1">>, raises |-> FALSE],
      [name |-> "d.pdf", first_int |-> <<>>, items |-> <<>>, raises |-> TRUE] }

WestellUploads ==
    { u \in SUBSET WestellPdfs : u # {} /\ Cardinality(u) <= MaxUpload }

\* document_number = f"PO{first_int}" if first_int else ""
DocumentNumber(pdf) ==
    IF pdf.first_int = <<>> THEN <<>> ELSE <<"P", "O">> \o pdf.first_int

\* extract_po_info_Westl: one row per block; an exception is printed and
\* the rows built so far (none, when the PDF cannot be read) are returned.
extract_po_info_Westl(pdf) ==
    IF pdf.raises THEN <<>>
    ELSE [i \in 1..Len(pdf.items) |->
            [DocumentNumber |-> DocumentNumber(pdf), Item_Code |-> pdf.items[i]]]

\* The orders in which os.walk may list a set of files.
Orders(S) ==
    { f \in [1..Cardinality(S) -> S] :
        \A i, j \in 1..Cardinality(S) : i # j => f[i] # f[j] }

RECURSIVE ExtractAll(_)
ExtractAll(pdf_files) ==
    IF pdf_files = <<>> THEN <<>>
    ELSE extract_po_info_Westl(Head(pdf_files)) \o ExtractAll(Tail(pdf_files))

\* The code point of a character of a document number.
Ord(c) ==
    CASE c = "0" -> 48 [] c = "1" -> 49 [] c = "2" -> 50 [] c = "3" -> 51
      [] c = "4" -> 52 [] c = "5" -> 53 [] c = "6" -> 54 [] c = "7" -> 55
      [] c = "8" -> 56 [] c = "9" -> 57 [] c = "O" -> 79 [] c = "P" -> 80

\* a < b for Python str values.
RECURSIVE StrLess(_, _)
StrLess(a, b) ==
    IF b = <<>> THEN FALSE
    ELSE IF a = <<>> THEN TRUE
    ELSE IF Ord(Head(a)) # Ord(Head(b)) THEN Ord(Head(a)) < Ord(Head(b))
    ELSE StrLess(Tail(a), Tail(b))

\* df.drop_duplicates(): the first of identical rows is kept.
RECURSIVE drop_duplicates(_)
drop_duplicates(rows) ==
    IF rows = <<>> THEN <<>>
    ELSE LET front == drop_duplicates(SubSeq(rows, 1, Len(rows) - 1))
             last == rows[Len(rows)]
         IN IF \E i \in 1..Len(front) : front[i] = last
            THEN front ELSE Append(front, last)

\* df.sort_values(by="Document Number") of rows without duplicates: the
\* string column is compared as str; the default sort is not stable, so
\* every ascending arrangement is a possible outcome.
sort_values(rows) ==
    { p \in Orders({ rows[i] : i \in 1..Len(rows) }) :
        \A i, j \in 1..Len(p) :
            i < j => ~StrLess(p[j].DocumentNumber, p[i].DocumentNumber) }

\* What df.to_csv leaves in a file it opened with mode "w" and writes from
\* offset 0: the rows, marked with the writing session, over the old content.
WriteAtStart(content, rows, s) ==
    [i \in 1..(IF Len(rows) > Len(content) THEN Len(rows) ELSE Len(content)) |->
        IF i <= Len(rows) THEN [by |-> s, row |-> rows[i]] ELSE content[i]]

SessionIdle ==
    [pc |-> "idle", upload |-> {}, temp_dir |-> 0, all_rows |-> <<>>,
     df |-> <<>>, shown |-> {}]

\* main() line 168 and process_files lines 84-95: files are uploaded, a
\* fresh temporary directory is made and the files are saved into it.
WestellUpload(s) ==
    /\ wsess[s].pc = "idle"
    /\ \E up \in WestellUploads :
        /\ temp_dirs' = Append(temp_dirs, [owner |-> s, files |-> up])
        /\ wsess' = [wsess EXCEPT ![s] =
              [SessionIdle EXCEPT !.pc = "saved", !.upload = up,
                                  !.temp_dir = Len(temp_dirs) + 1]]
    /\ UNCHANGED <<csv_file, console, authVars, scanVars, ilmVars, parseVars,
                   chatVars, stepVars>>

\* Lines 97-106: the PDFs of the directory are extracted in os.walk order.
WestellExtract(s) ==
    /\ wsess[s].pc = "saved"
    /\ \E pdf_files \in Orders(temp_dirs[wsess[s].temp_dir].files) :
        wsess' = [wsess EXCEPT ![s].pc = "extracted",
                               ![s].all_rows = ExtractAll(pdf_files)]
    /\ console' = console \cup
          { [session |-> s, text |-> "Error in", pdf |-> pdf.name] :
              pdf \in { f \in wsess[s].upload : f.raises } }
    /\ UNCHANGED <<temp_dirs, csv_file, authVars, scanVars, ilmVars,
                   parseVars, chatVars, stepVars>>

\* Lines 109-122: duplicates dropped, rows sorted, and to_csv opens
\* "po_extracted.csv" in the server's working directory, truncating it.
WestellCsvOpen(s) ==
    /\ wsess[s].pc = "extracted"
    /\ wsess[s].all_rows # <<>>
    /\ \E df \in sort_values(drop_duplicates(wsess[s].all_rows)) :
        wsess' = [wsess EXCEPT ![s].pc = "csv_open", ![s].df = df]
    /\ csv_file' = <<>>
    /\ UNCHANGED <<temp_dirs, console, authVars, scanVars, ilmVars,
                   parseVars, chatVars, stepVars>>

\* Lines 122-123: the rows are written and the file closed.
WestellCsvWrite(s) ==
    /\ wsess[s].pc = "csv_open"
    /\ csv_file' = WriteAtStart(csv_file, wsess[s].df, s)
    /\ console' = console \cup
          { [session |-> s, text |-> "Extraction complete", pdf |-> ""] }
    /\ wsess' = [wsess EXCEPT ![s].pc = "csv_written"]
    /\ UNCHANGED <<temp_dirs, authVars, scanVars, ilmVars, parseVars,
                   chatVars, stepVars>>

\* Lines 125-128 and main() lines 168-182: the table is returned and shown.
WestellShow(s) ==
    /\ \/ wsess[s].pc = "csv_written"
       \/ wsess[s].pc = "extracted" /\ wsess[s].all_rows = <<>>
    /\ wsess' = [wsess EXCEPT
          ![s].pc = "done",
          ![s].shown = IF wsess[s].df = <<>>
                       THEN { [kind |-> "info", text |-> "Upload PDF(s) or ZIP to start extraction.", pdf |-> ""] }
                       ELSE { [kind |-> "success", text |-> "Extraction complete!", pdf |-> ""] }]
    /\ UNCHANGED <<temp_dirs, csv_file, console, authVars, scanVars, ilmVars,
                   parseVars, chatVars, stepVars>>

InitWestell ==
    /\ wsess = [s \in Sessions |-> SessionIdle]
    /\ temp_dirs = <<>>
    /\ csv_file = <<>>
    /\ console = {}

NextWestell ==
    \E s \in Sessions :
        \/ WestellUpload(s)
        \/ WestellExtract(s)
        \/ WestellCsvOpen(s)
        \/ WestellCsvWrite(s)
        \/ WestellShow(s)

(***************************************************************************)
(* helpers/agent.py: the agents and the chat system of the Bot page        *)
(***************************************************************************)

Agents == {"data_analyst", "insight_analyst"}

\* The strings of helpers/agent.py.
\* The cross mark U+274C that begins every error string.
ErrorMark == "(x)"
NotInitialized == <<ErrorMark, "OpenAI client not initialized. Please check your API key.">>
ErrorGenerating == <<ErrorMark, "Error generating response:">>
ErrorAnalyzing == <<ErrorMark, "Error analyzing data:">>
LlmNotAvailable == <<"(i)", "LLM not available for advanced insights.">>
TechnicalAnalysis == <<"Technical Analysis:">>

\* The value None, which is no string.
NoneValue == <<"None">>

\* "if x": x is neither None nor the empty string.
Truthy(x) == x # NoneValue /\ x # <<>>

\* What chat.completions.create can do: answer with a short or a long text,
\* with a text that itself begins with the error mark, with an empty text
\* or with no content, or raise.
LongText == "a long analysis"

ApiOutcomes ==
    { [kind |-> "ok", content |-> <<"Orders", " ", "rose">>],
      [kind |-> "ok", content |-> <<LongText>>],
      [kind |-> "ok", content |-> <<ErrorMark, " ", "no", " ", "data">>],
      [kind |-> "ok", content |-> <<>>],
      [kind |-> "ok", content |-> NoneValue],
      [kind |-> "raise", content |-> <<"APIError">>] }

\* What DataAnalyzer().process_query can do: return a dict, one of them
\* with the extra key 'show_table', or raise.
QueryOutcomes ==
    { [kind |-> "ok", response |-> <<"Total Records">>,
       keys |-> {"response", "data", "chart", "agent"}],
      [kind |-> "ok", response |-> <<"Showing rows">>,
       keys |-> {"response", "data", "chart", "agent", "show_table"}],
      [kind |-> "raise", response |-> <<>>, keys |-> {}] }

\* len(s) of a text: the long answer has more than 100 characters.
RECURSIVE TextLen(_)
TextLen(s) ==
    IF s = <<>> THEN 0
    ELSE (IF Head(s) = LongText THEN 120 ELSE 1) + TextLen(Tail(s))

\* recent_history = conversation_history[-4:]
Recent(history) ==
    IF Len(history) <= 4 THEN history
    ELSE SubSeq(history, Len(history) - 3, Len(history))

\* The roles of the messages generate_response sends: the two system
\* messages, the recent history, the query.
MessagesOf(history) ==
    <<"system", "system">>
      \o [i \in 1..Len(Recent(history)) |->
             IF Recent(history)[i] = "User:" THEN "user" ELSE "assistant"]
      \o <<"user">>

\* self.client.chat.completions.create(...) and the read of
\* response.choices[0].message.content.
ApiCall(api) ==
    IF api.kind = "raise"
    THEN [exc |-> api.content[1], value |-> <<>>]
    ELSE Value(api.content)

\* A plausible slip: the API call is not in a try block.
generate_response_notry(client, history, api) ==
    IF ~client
    THEN [exc |-> "", value |-> NotInitialized, api_called |-> FALSE,
          messages |-> <<>>, client |-> client]
    ELSE [exc |-> ApiCall(api).exc, value |-> ApiCall(api).value,
          api_called |-> TRUE, messages |-> MessagesOf(history),
             client |-> client]

\* OpenAILLMAgent.generate_response of an agent with that client and
\* history: the value returned, the exception that leaves the call, whether
\* the API was called and with which messages, and the client it had.
generate_response(client, history, api) ==
    IF ~client
    THEN [exc |-> "", value |-> NotInitialized, api_called |-> FALSE,
          messages |-> <<>>, client |-> client]
    ELSE LET outcome == TryExcept(ApiCall(api),
                                  Append(ErrorGenerating, ApiCall(api).exc))
         IN [exc |-> outcome.exc, value |-> outcome.value,
             api_called |-> TRUE, messages |-> MessagesOf(history),
             client |-> client]

\* _combine_responses: len(None) raises TypeError.
combine_responses(traditional_response, llm_response) ==
    IF llm_response = NoneValue
    THEN [exc |-> "TypeError", value |-> <<>>]
    ELSE IF TextLen(llm_response) > 100 /\ ~StartsWith(llm_response, <<ErrorMark>>)
    THEN Value(llm_response \o TechnicalAnalysis \o traditional_response)
    ELSE Value(traditional_response)

\* The dict of the except branch of analyze_data.
error_result(exc) ==
    [response |-> Append(ErrorAnalyzing, exc), llm_enhanced |-> FALSE,
     keys |-> {"response", "data", "chart", "agent", "llm_enhanced"},
     insights |-> <<>>]

\* DataAnalysisAgent.analyze_data: the dict returned, the history after the
\* call and the calls of generate_response made.
analyze_data(client, history, query, use_llm, api) ==
    LET asked == Append(history, "User:")
        llm == generate_response(client, asked, api)
        enhanced == combine_responses(query.response, llm.value)
        calls == IF query.kind = "ok" /\ use_llm /\ client THEN <<llm>> ELSE <<>>
        basic_result ==
            IF query.kind = "raise" THEN error_result("query")
            ELSE IF ~(use_llm /\ client)
            THEN [response |-> query.response, llm_enhanced |-> FALSE,
                  keys |-> query.keys, insights |-> <<>>]
            ELSE IF llm.exc # "" THEN error_result(llm.exc)
            ELSE IF enhanced.exc # "" THEN error_result(enhanced.exc)
            ELSE [response |-> enhanced.value, llm_enhanced |-> TRUE,
                  keys |-> query.keys \cup {"llm_enhanced"}, insights |-> <<>>]
    IN [result |-> basic_result, history |-> Append(asked, "Agent:"), calls |-> calls]

\* InsightAgent.generate_insights; its conversation_history is never
\* written.
generate_insights(client, api) ==
    IF ~client
    THEN [exc |-> "", value |-> LlmNotAvailable, api_called |-> FALSE,
          messages |-> <<>>, client |-> client]
    ELSE generate_response(client, <<>>, api)

\* AutoGenChatSystem.__init__ and a look at nothing called yet.
NoCall == [fn |-> "none", client |-> FALSE, requested |-> FALSE,
           enabled |-> FALSE, calls |-> <<>>, result |-> error_result("")]

NewChatSystem ==
    [client |-> [a \in Agents |-> FALSE],
     conversation_history |-> <<>>,
     openai_enabled |-> FALSE,
     use_llm_enhancement |-> TRUE,
     last |-> NoCall]

\* The longest conversation_history of the data analyst.
MaxHistory == 4

\* initialize_openai: each agent's OpenAI(api_key=...) succeeds or raises;
\* a failure leaves the agent's client as it was.
InitializeOpenAI ==
    /\ \E ok \in [Agents -> BOOLEAN] :
          chat' = [chat EXCEPT
                     !.client = [a \in Agents |-> ok[a] \/ chat.client[a]],
                     !.openai_enabled = \A a \in Agents : ok[a],
                     !.last = NoCall]
    /\ UNCHANGED <<authVars, scanVars, ilmVars, westellVars, parseVars, stepVars>>

\* The checkbox of render_llm_settings.
SetLlmEnhancement ==
    /\ chat' = [chat EXCEPT !.use_llm_enhancement = ~@, !.last = NoCall]
    /\ UNCHANGED <<authVars, scanVars, ilmVars, westellVars, parseVars, stepVars>>

\* One call of generate_response on one of the agents.
GenerateResponse ==
    /\ \E a \in Agents, api \in ApiOutcomes :
          LET history == IF a = "data_analyst" THEN chat.conversation_history
                         ELSE <<>>
          IN chat' = [chat EXCEPT !.last =
                        [fn |-> "generate_response", client |-> chat.client[a],
                         requested |-> FALSE, enabled |-> chat.openai_enabled,
                         calls |-> <<generate_response(chat.client[a], history, api)
                                     @@ [api |-> api]>>,
                         result |-> error_result("")]]
    /\ UNCHANGED <<authVars, scanVars, ilmVars, westellVars, parseVars, stepVars>>

\* AutoGenChatSystem.process_message, as process_user_input calls it.
ProcessMessage ==
    /\ Len(chat.conversation_history) + 2 <= MaxHistory
    /\ \E requested \in BOOLEAN, query \in QueryOutcomes,
          api1 \in ApiOutcomes, api2 \in ApiOutcomes :
          LET analysis == analyze_data(chat.client["data_analyst"],
                              chat.conversation_history, query,
                              chat.openai_enabled /\ chat.use_llm_enhancement,
                              api1)
              asks == requested /\ chat.openai_enabled
              insights == generate_insights(chat.client["insight_analyst"], api2)
              attach == /\ asks
                        /\ Truthy(insights.value)
                        /\ ~StartsWith(insights.value, <<ErrorMark>>)
              answer == IF attach
                        THEN [analysis.result EXCEPT
                                 !.keys = @ \cup {"insights"},
                                 !.insights = insights.value]
                        ELSE analysis.result
              calls1 == [i \in 1..Len(analysis.calls) |->
                            analysis.calls[i] @@ [api |-> api1]]
              calls2 == IF asks /\ chat.client["insight_analyst"]
                        THEN <<insights @@ [api |-> api2]>> ELSE <<>>
          IN chat' = [chat EXCEPT
                        !.conversation_history = analysis.history,
                        !.last = [fn |-> "process_message",
                                  client |-> chat.client["insight_analyst"],
                                  requested |-> requested,
                                  enabled |-> chat.openai_enabled,
                                  calls |-> calls1 \o calls2,
                                  result |-> answer]]
    /\ UNCHANGED <<authVars, scanVars, ilmVars, westellVars, parseVars, stepVars>>

\* pages/4_Bot.py "Clear Chat History": a new AutoGenChatSystem.
ClearChat ==
    /\ chat # NewChatSystem
    /\ chat' = NewChatSystem
    /\ UNCHANGED <<authVars, scanVars, ilmVars, westellVars, parseVars, stepVars>>

InitChat == chat = NewChatSystem

NextChat ==
    \/ InitializeOpenAI
    \/ SetLlmEnhancement
    \/ GenerateResponse
    \/ ProcessMessage
    \/ ClearChat

(***************************************************************************)
(* weight_calc.py and pages/3_Weight_Calc.py: weights of STEP files        *)
(***************************************************************************)

\* Numbers are kept as integers: volumes in mm3, SV in 1/SVUnit cm3,
\* densities in 1/DensityUnit g/cm3, BV/5000 and weights in 1/WeightUnit kg.
SVUnit == 1000
DensityUnit == 100
WeightUnit == SVUnit * DensityUnit * 1000

\* MATERIAL_DENSITIES, in 1/DensityUnit g/cm3.
MATERIAL_DENSITIES ==
    [m \in {"aluminum", "steel", "stainless_steel", "brass", "copper",
            "titanium", "cast_iron", "bronze", "zinc", "magnesium"} |->
        CASE m = "aluminum" -> 270
          [] m = "steel" -> 785
          [] m = "stainless_steel" -> 800
          [] m = "brass" -> 850
          [] m = "copper" -> 896
          [] m = "titanium" -> 451
          [] m = "cast_iron" -> 720
          [] m = "bronze" -> 880
          [] m = "zinc" -> 714
          [] m = "magnesium" -> 174]

\* The STEP files there are: one that cannot be read, one without a valid
\* shape, a solid block and a thin shell with the same bounding box, in mm
\* and mm3.
StepFiles ==
    { [error |-> "ValueError: Error reading STEP file",
       volume |-> 0, x |-> 0, y |-> 0, z |-> 0],
      [error |-> "ValueError: No valid shape found in STEP file",
       volume |-> 0, x |-> 0, y |-> 0, z |-> 0],
      [error |-> "", volume |-> 40000, x |-> 50, y |-> 40, z |-> 20],
      [error |-> "", volume |-> 1000, x |-> 50, y |-> 40, z |-> 20] }

\* The material argument: a name, a number (a density), or None.
Name(n) == [kind |-> "str", name |-> n, value |-> 0]
Number(d) == [kind |-> "number", name |-> "", value |-> d]
None == [kind |-> "None", name |-> "", value |-> 0]

\* The materials process_multiple_step_files is called with.
Materials ==
    { Name("steel"), Name("Steel"), Name("ALUMINUM"), Name("titanium"),
      Name("wood"), Number(270), None }

\* The densities the page passes: the table's for the selected material,
\* or the custom number, between 0.1 and 25.0.
PageOptions ==
    { [material |-> "steel", density |-> MATERIAL_DENSITIES["steel"]],
      [material |-> "magnesium", density |-> MATERIAL_DENSITIES["magnesium"]],
      [material |-> "custom", density |-> 10],
      [material |-> "custom", density |-> 2500] }

\* A plausible slip: the name is looked up as it is written.
DensityOf_nolower(material) ==
    IF material.kind = "str"
    THEN IF material.name \in DOMAIN MATERIAL_DENSITIES
         THEN MATERIAL_DENSITIES[material.name]
         ELSE MATERIAL_DENSITIES["steel"]
    ELSE material.value

\* "if isinstance(material, str): density = MATERIAL_DENSITIES.get(
\* material.lower(), MATERIAL_DENSITIES['steel']) else: density = material"
DensityOf(material) ==
    IF material.kind = "str"
    THEN IF LowerToken(material.name) \in DOMAIN MATERIAL_DENSITIES
         THEN MATERIAL_DENSITIES[LowerToken(material.name)]
         ELSE MATERIAL_DENSITIES["steel"]
    ELSE material.value

\* max(a, b) of Python.
Max(a, b) == IF b > a THEN b ELSE a

\* The columns of the DataFrame process_step_file returns.
RowKeys ==
    {"x", "y", "z", "BV/5000", "SV", "density", "SV_weight_kg",
     "max_internal_or_weight"}

NoRow == [k \in RowKeys |-> 0]

\* process_step_file: the DataFrame of one row, or None after st.error.
process_step_file(file, material) ==
    IF file.error # ""
    THEN [none |-> TRUE, df |-> NoRow, error |-> file.error]
    ELSE IF material.kind = "None"
    THEN [none |-> TRUE, df |-> NoRow, error |-> "TypeError"]
    ELSE LET sv_cm3 == file.volume * (SVUnit \div 1000)
             bbox_volume_mm3 == file.x * file.y * file.z
             bv_5000 == bbox_volume_mm3 * (WeightUnit \div 5000000)
             density == DensityOf(material)
             actual_weight_kg ==
                 sv_cm3 * density * (WeightUnit \div (SVUnit * DensityUnit * 1000))
             max_value == Max(bv_5000, actual_weight_kg)
         IN [none |-> FALSE, error |-> "",
             df |-> [k \in RowKeys |->
                       CASE k = "x" -> file.x
                         [] k = "y" -> file.y
                         [] k = "z" -> file.z
                         [] k = "BV/5000" -> bv_5000
                         [] k = "SV" -> sv_cm3
                         [] k = "density" -> density
                         [] k = "SV_weight_kg" -> actual_weight_kg
                         [] k = "max_internal_or_weight" -> max_value]]

\* The most files in one run.
MaxStepFiles == 2

StepIdle ==
    [pc |-> "idle", caller |-> "none", files |-> <<>>, materials |-> <<>>,
     next |-> 1, returned |-> <<>>, results |-> <<>>, errors |-> <<>>]

\* pages/3_Weight_Calc.py: a file is uploaded and its material selected.
StepUpload ==
    /\ step.pc = "idle"
    /\ step.caller \in {"none", "page"}
    /\ Len(step.files) < MaxStepFiles
    /\ \E file \in StepFiles, option \in PageOptions :
          step' = [step EXCEPT !.caller = "page",
                               !.files = Append(@, file),
                               !.materials = Append(@, Number(option.density))]
    /\ UNCHANGED <<authVars, scanVars, ilmVars, westellVars, parseVars, chatVars>>

\* pages/3_Weight_Calc.py: "Process All Files" is clicked.
StepClickProcess ==
    /\ step.pc = "idle"
    /\ step.caller = "page"
    /\ step' = [step EXCEPT !.pc = "running"]
    /\ UNCHANGED <<authVars, scanVars, ilmVars, westellVars, parseVars, chatVars>>

\* process_multiple_step_files is called with paths and one material.
StepCallMultiple ==
    /\ step.pc = "idle"
    /\ step.caller = "none"
    /\ \E n \in 1..MaxStepFiles :
       \E files \in [1..n -> StepFiles], material \in Materials :
          step' = [step EXCEPT !.pc = "running",
                               !.caller = "process_multiple_step_files",
                               !.files = files,
                               !.materials = [i \in 1..n |-> material]]
    /\ UNCHANGED <<authVars, scanVars, ilmVars, westellVars, parseVars, chatVars>>

\* One iteration of the loop of either caller: the file is processed and,
\* if a DataFrame came back, its row is appended to results.
StepProcessFile ==
    /\ step.pc = "running"
    /\ step.next <= Len(step.files)
    /\ LET df == process_step_file(step.files[step.next],
                                   step.materials[step.next])
       IN step' = [step EXCEPT
                     !.next = @ + 1,
                     !.returned = Append(@, df),
                     !.errors = IF df.none THEN Append(@, df.error) ELSE @,
                     !.results = IF ~df.none
                                 THEN Append(@, [filename |-> step.next,
                                                 row |-> df.df])
                                 ELSE @]
    /\ UNCHANGED <<authVars, scanVars, ilmVars, westellVars, parseVars, chatVars>>

\* The loop is over: the rows are concatenated.
StepFinish ==
    /\ step.pc = "running"
    /\ step.next > Len(step.files)
    /\ step' = [step EXCEPT !.pc = "done"]
    /\ UNCHANGED <<authVars, scanVars, ilmVars, westellVars, parseVars, chatVars>>

InitStep == step = StepIdle

NextStep ==
    \/ StepUpload
    \/ StepClickProcess
    \/ StepCallMultiple
    \/ StepProcessFile
    \/ StepFinish

(***************************************************************************)
(* The specifications                                                      *)
(***************************************************************************)

Init ==
    /\ InitAuth
    /\ InitScan
    /\ InitIlm
    /\ InitWestell
    /\ InitParse
    /\ InitChat
    /\ InitStep

Next ==
    \/ NextAuth
    \/ NextScan
    \/ NextIlm
    \/ NextWestell
    \/ NextParse
    \/ NextChat
    \/ NextStep

Spec == Init /\ [][Next]_vars

\* The login gate and the pages alone.
SpecAuth == Init /\ [][NextAuth]_vars

\* One call of the ILM item extractor alone.
SpecScan == Init /\ [][NextScan]_vars

\* One run of the ILM page alone.
SpecIlm == Init /\ [][NextIlm]_vars

\* The sessions' runs of the Westell page alone.
SpecWestell == Init /\ [][NextWestell]_vars

\* Calls of parse_block alone.
SpecParse == Init /\ [][NextParse]_vars

\* The chat system of the Bot page alone.
SpecChat == Init /\ [][NextChat]_vars

\* Runs over STEP files alone.
SpecStep == Init /\ [][NextStep]_vars

(***************************************************************************)
(* Claims about the login gate and the login state                         *)
(***************************************************************************)

\* C1: every page (ILM, Westell, Weight Calc, Bot) is login-gated: a page run
\* in a session where logged_in is absent or False shows nothing but the
\* 'You must be logged in' error and performs no upload and no processing.
C1_EveryPageGated ==
    (view.page \in Pages /\ NotLoggedIn(session_state)) =>
        /\ view.shown = {"login_error"}
        /\ ~view.uploaded
        /\ ~view.processed

\* C2: a Login click logs in exactly when the username is a key of
\* USER_CREDENTIALS and the password is the stored one, and current_user is
\* then that username; any other Login click leaves logged_in False and
\* current_user None. In every state logged_in is True exactly when
\* current_user is a configured username and False exactly when it is None.
C2_LoginState ==
    "logged_in" \in DOMAIN session_state =>
        /\ "current_user" \in DOMAIN session_state
        /\ session_state["logged_in"] <=>
              session_state["current_user"] \in DOMAIN USER_CREDENTIALS
        /\ ~session_state["logged_in"] <=> session_state["current_user"] = NoUser
        /\ last_click.kind = "login" =>
              IF /\ last_click.username \in DOMAIN USER_CREDENTIALS
                 /\ USER_CREDENTIALS[last_click.username].password = last_click.password
              THEN /\ session_state["logged_in"]
                   /\ session_state["current_user"] = last_click.username
              ELSE /\ ~session_state["logged_in"]
                   /\ session_state["current_user"] = NoUser

\* C2 witness: a Login click with a configured name and its password has
\* logged that user in.
C2_Witness ==
    /\ last_click.kind = "login"
    /\ "logged_in" \in DOMAIN session_state
    /\ session_state["logged_in"]
    /\ session_state["current_user"] = last_click.username

(***************************************************************************)
(* Claims about the Westell page                                           *)
(***************************************************************************)

\* C3: sessions share no mutable resource but their own session state: what
\* one session's process_files wrote is never overwritten by, nor mixed
\* with, what another session writes.
C3_SessionsShareNothing ==
    /\ \A i, j \in 1..Len(csv_file) : csv_file[i].by = csv_file[j].by
    /\ \A s \in Sessions :
          (wsess[s].pc \in {"csv_written", "done"} /\ wsess[s].df # <<>>) =>
              csv_file = [i \in 1..Len(wsess[s].df) |->
                              [by |-> s, row |-> wsess[s].df[i]]]
    /\ \A d \in 1..Len(temp_dirs) :
          \A s \in Sessions : wsess[s].temp_dir = d => temp_dirs[d].owner = s

\* C4: every exception raised while a PDF is extracted is caught, leaves the
\* other files to be processed, and reaches the user as an error string:
\* once the page is shown, each PDF that raised has an error on the page.
C4_ErrorsReachUser ==
    \A s \in Sessions :
        wsess[s].pc = "done" =>
            \A pdf \in wsess[s].upload :
                pdf.raises =>
                    \E m \in wsess[s].shown : m.kind = "error" /\ m.pdf = pdf.name

\* The number a string of digits denotes.
RECURSIVE DigitsValue(_)
DigitsValue(d) ==
    IF d = <<>> THEN 0
    ELSE 10 * DigitsValue(SubSeq(d, 1, Len(d) - 1)) + (Ord(d[Len(d)]) - 48)

\* The purchase-order number of a document number "PO<digits>".
PoNumber(doc) == DigitsValue(SubSeq(doc, 3, Len(doc)))

\* C7: the table process_files returns has no two identical rows and is
\* sorted by Document Number, so that no row of a purchase order with a
\* smaller number comes after a row of one with a larger number; with no
\* row extracted the table is empty.
C7_SortedByPoNumber ==
    \A s \in Sessions :
        wsess[s].pc \in {"csv_open", "csv_written", "done"} =>
            LET df == wsess[s].df IN
            /\ \A i, j \in 1..Len(df) : i # j => df[i] # df[j]
            /\ \A i, j \in 1..Len(df) :
                  i < j => PoNumber(df[i].DocumentNumber) <= PoNumber(df[j].DocumentNumber)
            /\ wsess[s].all_rows = <<>> => df = <<>>

(***************************************************************************)
(* Claims about the ILM item extractor                                     *)
(***************************************************************************)

\* The scanner was inside the table after one of the first n lines.
EnteredTable(v, text) ==
    \E k \in 1..Len(text) : ScanText(v, SubSeq(text, 1, k)).inside_table

\* Line number k of the text was read with the scanner inside the table.
ReadInsideTable(v, text, k) ==
    ScanText(v, SubSeq(text, 1, k - 1)).inside_table

IsStopLine(line) == StartsWith(Strip(line), stop_marker)

IsDeliveryLine(line) == StartsWith(Strip(line), DeliveryDateLabel)

\* C5: for a readable text the extractor returns the format-mismatch error
\* exactly when the scanner never finds the start marker (never enters the
\* table); in every other case it returns a list, never an error.
C5_ErrorIffNoStartMarker ==
    result # NoResult =>
        IF EnteredTable(variant, lines)
        THEN result.kind = "list"
        ELSE result = [kind |-> "error", error |-> "format mismatch", items |-> <<>>]

\* C5 witness: a text that left the table again was answered with a list,
\* not with the error.
C5_Witness ==
    /\ result.kind = "list"
    /\ ~scan.inside_table
    /\ Len(lines) >= 2

\* C8: the start marker is found in every text with a line that is
\* 'Tax%Tax%' once its spaces are removed, or with 'Tax %' on two
\* consecutive lines; before it is found no line is added to any block.
C8_StartMarkerFound ==
    /\ (\E k \in 1..Len(lines) :
          \/ RemoveSpaces(lines[k]) = StartMarker
          \/ /\ k < Len(lines)
             /\ Strip(lines[k]) = TaxPercent
             /\ Strip(lines[k + 1]) = TaxPercent)
       => scan.start_marker_found
    /\ ~scan.start_marker_found =>
          scan.blocks = <<>> /\ scan.current_block = <<>>

\* C9: no emitted block holds lines from both sides of a line starting with
\* the stop marker, and no line read between a stop marker and the next
\* start marker is part of a block.
C9_BlocksEndAtStopMarker ==
    \A b \in 1..Len(scan.blocks) :
        LET src == scan.blocks[b].source IN
        /\ \A i, j \in 1..Len(src) : \A k \in 1..Len(lines) :
              (src[i].at < k /\ k < src[j].at) => ~IsStopLine(lines[k])
        /\ \A i \in 1..Len(src) : ReadInsideTable(variant, lines, src[i].at)

\* The 'Delivery Date:' lines read inside the table.
DeliveryLinesInTable(v, text) ==
    { k \in 1..Len(text) :
        IsDeliveryLine(text[k]) /\ ReadInsideTable(v, text, k) }

\* The scanner read line_strip inside the table with a date pending.
DatePendingAndRead(st, line_strip) ==
    st.inside_table /\ st.waiting_for_date /\ MatchesDate(line_strip)

\* C10 as stated: a block is emitted exactly when, inside the table with a
\* 'Delivery Date:' pending, a line beginning with a date is read; flag and
\* buffer are then reset; items never outnumber the 'Delivery Date:' lines.
C10_EmitsExactlyOnDate ==
    [][lines' # lines =>
        LET line_strip == Strip(lines'[Len(lines')]) IN
        /\ Len(scan'.blocks) = Len(scan.blocks) + 1
              <=> DatePendingAndRead(scan, line_strip)
        /\ DatePendingAndRead(scan, line_strip) =>
              ~scan'.waiting_for_date /\ scan'.current_block = <<>>
        /\ Len(scan'.blocks) <= Cardinality(DeliveryLinesInTable(variant', lines'))
      ]_vars

\* C10 as amended: as C10, except that extract_item_blocks_ILM emits nothing
\* for a block in which a line contains 'page'; otherwise no block is added.
C10_EmitsOnDateUnlessPage ==
    [][lines' # lines =>
        LET line_strip == Strip(lines'[Len(lines')])
            has_page == \/ ContainsPage(line_strip)
                        \/ \E i \in 1..Len(scan.current_block) :
                              ContainsPage(scan.current_block[i].text)
            emits == /\ DatePendingAndRead(scan, line_strip)
                     /\ ~(variant = "extractor" /\ has_page)
        IN
        /\ IF emits
           THEN /\ Len(scan'.blocks) = Len(scan.blocks) + 1
                /\ SubSeq(scan'.blocks, 1, Len(scan.blocks)) = scan.blocks
           ELSE scan'.blocks = scan.blocks
        /\ DatePendingAndRead(scan, line_strip) =>
              ~scan'.waiting_for_date /\ scan'.current_block = <<>>
        /\ Len(scan'.blocks) <= Cardinality(DeliveryLinesInTable(variant', lines'))
      ]_vars

\* C10 witness: a date line has closed a second block after a first one.
C10_Witness ==
    /\ Len(scan.blocks) = 2
    /\ MatchesDate(Strip(lines[Len(lines)]))
    /\ ~scan.waiting_for_date
    /\ scan.current_block = <<>>

(***************************************************************************)
(* Claims about the ILM page                                               *)
(***************************************************************************)

\* The rows of the table that come from the n-th PDF.
RowsFrom(df, n) == SelectSeq(df, LAMBDA r : r.pdf = n)

\* Each PDF has one row per extracted item, header and item fields merged,
\* or exactly one row with the error text.
RowsPerPdf(n) ==
    LET rows == RowsFrom(ilm.df, n)
        po_info == extract_po_info(ilm.pdf_files[n])
        item_blocks == extract_item_blocks(ilm.pdf_files[n])
    IN IF item_blocks.kind = "list"
       THEN /\ Len(rows) = Len(item_blocks.items)
            /\ \A i \in 1..Len(rows) :
                  rows[i].item = item_blocks.items[i] /\ rows[i].po_info = po_info
       ELSE /\ Len(rows) = 1
            /\ rows[1].error = item_blocks.error
            /\ rows[1].po_info = po_info

\* C6 as stated: rows per PDF as above, so every PDF of the upload has at
\* least one row in the table.
C6_EveryPdfHasARow ==
    ilm.pc = "shown" =>
        \A n \in 1..Len(ilm.pdf_files) :
            RowsPerPdf(n) /\ Len(RowsFrom(ilm.df, n)) >= 1

\* C6 as amended: rows per PDF as above, in upload order; a PDF has no row
\* exactly when its item extraction returned an empty list.
C6_RowsPerPdf ==
    ilm.pc = "shown" =>
        /\ \A n \in 1..Len(ilm.pdf_files) :
              /\ RowsPerPdf(n)
              /\ Len(RowsFrom(ilm.df, n)) = 0 <=>
                    extract_item_blocks(ilm.pdf_files[n]) =
                        [kind |-> "list", error |-> "", items |-> <<>>]
        /\ \A i, j \in 1..Len(ilm.df) : i < j => ilm.df[i].pdf <= ilm.df[j].pdf

\* C6 witness: a table from a PDF with two items, one that gave an error
\* row and one that gave no row.
C6_Witness ==
    /\ ilm.pc = "shown"
    /\ \E a, b, c \in 1..Len(ilm.pdf_files) :
          /\ Len(RowsFrom(ilm.df, a)) = 2
          /\ Len(RowsFrom(ilm.df, b)) = 1 /\ RowsFrom(ilm.df, b)[1].item = NoItem
          /\ Len(RowsFrom(ilm.df, c)) = 0

(***************************************************************************)
(* Claims about the parsed items                                           *)
(***************************************************************************)

\* C11: the 'Delivery Date' of every item the ILM extractor has collected is
\* the date line that closed its block, a line beginning with a
\* d{1,2}/d{1,2}/dddd date, whatever lines lie between 'Delivery Date:' and
\* that date line.
C11_DeliveryDateIsClosingDate ==
    \A b \in 1..Len(scan.blocks) :
        LET source == scan.blocks[b].source IN
        /\ MatchesDate(scan.blocks[b].data["Delivery Date"])
        /\ scan.blocks[b].data["Delivery Date"] = Strip(source[Len(source)].text)

\* The buffer of the scanner, or the line it reads, contains 'page'.
BlockHasPage(st, line_strip) ==
    \/ ContainsPage(line_strip)
    \/ \E i \in 1..Len(st.current_block) : ContainsPage(st.current_block[i].text)

\* C12: in extract_item_blocks_ILM a completed block in which a line
\* contains 'page' is dropped, not parsed; the scanner then is outside the
\* table with buffer, pending flag and carried line reset, and collects
\* nothing until the start marker is seen again; so no collected item comes
\* from a block with a line containing 'page'.
C12_PageBlockDropped ==
    [][(variant = "extractor" /\ lines' # lines) =>
        LET line_strip == Strip(lines'[Len(lines')]) IN
        /\ (DatePendingAndRead(scan, line_strip) /\ BlockHasPage(scan, line_strip)) =>
              /\ scan'.blocks = scan.blocks
              /\ ~scan'.inside_table
              /\ scan'.current_block = <<>>
              /\ ~scan'.waiting_for_date
              /\ scan'.prev_line = <<>>
        /\ ~scan.inside_table =>
              /\ scan'.blocks = scan.blocks
              /\ scan'.current_block = scan.current_block
              /\ scan'.inside_table =>
                    RemoveSpaces(scan.prev_line \o line_strip) = StartMarker
        /\ \A b \in 1..Len(scan'.blocks) :
              \A i \in 1..Len(scan'.blocks[b].source) :
                  ~ContainsPage(scan'.blocks[b].source[i].text)
      ]_vars

\* C12 witness: extract_item_blocks_ILM has just dropped a completed block
\* with a 'page' line and is outside the table with nothing collected.
C12_Witness ==
    /\ variant = "extractor"
    /\ Len(lines) >= 3
    /\ LET before == ScanText(variant, SubSeq(lines, 1, Len(lines) - 1))
           line_strip == Strip(lines[Len(lines)])
       IN /\ DatePendingAndRead(before, line_strip)
          /\ BlockHasPage(before, line_strip)
          /\ Len(before.current_block) >= 2
    /\ ~scan.inside_table
    /\ scan.blocks = <<>>
    /\ scan.current_block = <<>>

\* The indices of the lines of a list that version v takes for numbers:
\* of the form digits.digits (helpers.py: once stripped) and not "0.0000".
NumberLines(v, block_lines) ==
    { i \in 1..Len(block_lines) :
        /\ IsDecimal(Read(v, block_lines[i]))
        /\ Read(v, block_lines[i]) # ZeroLine }

\* C13: for both versions of parse_block and any list of lines, Price is
\* the first line of the form digits.digits other than '0.0000' and Total
\* the numerically largest such line, so Total >= Price; Quantity is
\* Total / Price rounded to 4 decimals, and is the empty string exactly
\* when there is no such line or Price is numerically zero; the call does
\* not raise and returns exactly the eight item keys.
C13_PriceTotalQuantity ==
    parsed.version \in Variants =>
        LET v == parsed.version
            data == parsed.item.data
            numbers == NumberLines(v, parsed.block_lines)
            number(i) == Read(v, parsed.block_lines[i])
        IN
        /\ parsed.item.raised = ""
        /\ DOMAIN data = {"Item_Code", "Delivery Date", "Description",
                          "Item Details", "UoM(optional)", "Quantity",
                          "Price", "Total"}
        /\ IF numbers = {}
           THEN data["Price"] = <<>> /\ data["Total"] = <<>> /\ data["Quantity"] = <<>>
           ELSE /\ \E i \in numbers :
                      /\ data["Price"] = number(i)
                      /\ \A j \in numbers : i <= j
                /\ \E i \in numbers : data["Total"] = number(i)
                /\ \A j \in numbers :
                      FloatValue(data["Total"]) >= FloatValue(number(j))
                /\ FloatValue(data["Total"]) >= FloatValue(data["Price"])
                /\ data["Quantity"] = <<>> <=> FloatValue(data["Price"]) = 0
                /\ data["Quantity"] # <<>> =>
                      /\ IsDecimal(data["Quantity"])
                      /\ LET q == FloatValue(data["Quantity"])
                             d == q * FloatValue(data["Price"])
                                    - FloatValue(data["Total"]) * Scale
                         IN 2 * d <= FloatValue(data["Price"])
                            /\ 2 * d >= 0 - FloatValue(data["Price"])

\* C13 witness: a call whose list starts with '0.0000', with a Price that
\* is not the largest number and a quotient that had to be rounded.
C13_Witness ==
    /\ parsed.version \in Variants
    /\ Len(parsed.block_lines) >= 3
    /\ parsed.block_lines[1] = ZeroLine
    /\ parsed.item.data["Price"] # <<>>
    /\ parsed.item.data["Total"] # parsed.item.data["Price"]
    /\ parsed.item.data["Quantity"] # <<>>
    /\ FloatValue(parsed.item.data["Quantity"]) * FloatValue(parsed.item.data["Price"])
          # FloatValue(parsed.item.data["Total"]) * Scale

(***************************************************************************)
(* Claims about the chat system                                            *)
(***************************************************************************)

\* C14: generate_response never raises: without an initialised client it
\* returns the 'OpenAI client not initialized' string and does not call the
\* API, and a failure of the API is returned as an 'Error generating
\* response' string; process_message attaches 'insights' to a result only
\* when insights were requested, OpenAI is enabled and the insight text
\* does not start with the error mark.
C14_ErrorsAreStrings ==
    /\ \A i \in 1..Len(chat.last.calls) :
          LET call == chat.last.calls[i] IN
          /\ call.exc = ""
          /\ ~call.client =>
                /\ ~call.api_called
                /\ call.value = <<ErrorMark,
                       "OpenAI client not initialized. Please check your API key.">>
          /\ (call.client /\ call.api.kind = "raise") =>
                /\ Len(call.value) = 3
                /\ call.value[1] = ErrorMark
                /\ call.value[2] = "Error generating response:"
                /\ call.value[3] = call.api.content[1]
    /\ (chat.last.fn = "process_message" /\ "insights" \in chat.last.result.keys) =>
          /\ chat.last.requested
          /\ chat.last.enabled
          /\ chat.last.result.insights # <<>>
          /\ chat.last.result.insights[1] # ErrorMark

\* C14 witness: a process_message whose analysis call met an API failure
\* and whose insight call succeeded, so that insights were attached.
C14_Witness ==
    /\ chat.last.fn = "process_message"
    /\ Len(chat.last.calls) = 2
    /\ chat.last.calls[1].api.kind = "raise"
    /\ chat.last.calls[1].api_called
    /\ chat.last.calls[2].api.kind = "ok"
    /\ "insights" \in chat.last.result.keys

(***************************************************************************)
(* Claims about the weight calculator                                      *)
(***************************************************************************)

\* The rows of results that come from the i-th file.
RowsOfFile(i) == SelectSeq(step.results, LAMBDA r : r.filename = i)

\* C15: process_step_file uses as density the numeric argument itself, or
\* for a material name the table's density looked up case-insensitively,
\* steel's 7.85 for an unknown name; SV_weight_kg = SV x density / 1000 and
\* max_internal_or_weight is the larger of BV/5000 and SV_weight_kg, so it
\* is >= both; on any failure the function returns None and the file
\* contributes no row.
C15_DensityWeightMax ==
    \A i \in 1..Len(step.returned) :
        LET file == step.files[i]
            material == step.materials[i]
            out == step.returned[i]
            lower == LowerToken(material.name)
            expected == IF material.kind = "number" THEN material.value
                        ELSE IF lower \in DOMAIN MATERIAL_DENSITIES
                        THEN MATERIAL_DENSITIES[lower]
                        ELSE 785
            row == out.df
        IN IF file.error # "" \/ material.kind = "None"
           THEN out.none /\ RowsOfFile(i) = <<>>
           ELSE /\ ~out.none
                /\ Len(RowsOfFile(i)) = 1
                /\ RowsOfFile(i)[1].row = row
                /\ row["density"] = expected
                /\ row["SV"] * 1000 = file.volume * SVUnit
                /\ row["BV/5000"] =
                      file.x * file.y * file.z * (WeightUnit \div 5000000)
                /\ row["SV_weight_kg"] =
                      row["SV"] * row["density"]
                        * (WeightUnit \div (SVUnit * DensityUnit * 1000))
                /\ row["max_internal_or_weight"] >= row["BV/5000"]
                /\ row["max_internal_or_weight"] >= row["SV_weight_kg"]
                /\ row["max_internal_or_weight"]
                      \in {row["BV/5000"], row["SV_weight_kg"]}

\* C15 witness: a finished run with a material name written in capitals,
\* in which one file failed and gave no row and another gave a row whose
\* BV/5000 is larger than its weight.
C15_Witness ==
    /\ step.pc = "done"
    /\ Len(step.files) = 2
    /\ step.materials[1].kind = "str"
    /\ step.materials[1].name # LowerToken(step.materials[1].name)
    /\ LowerToken(step.materials[1].name) \in DOMAIN MATERIAL_DENSITIES
    /\ step.returned[1].none
    /\ Len(step.results) = 1
    /\ step.results[1].filename = 2
    /\ step.results[1].row["density"] < MATERIAL_DENSITIES["steel"]
    /\ step.results[1].row["max_internal_or_weight"]
          > step.results[1].row["SV_weight_kg"]

====
